---- MODULE Spec2Model ----
(***************************************************************************)
(* Forecast ingestion service of src/app.py: the periodic job update_data  *)
(* (fetch, persist, aggregate, render, cache update for each configured    *)
(* site), the table irradiation_data, the process-wide cache latest_data   *)
(* and the dashboard handler index, which reads the cache while the job    *)
(* may be running on the scheduler's thread.                               *)
(*                                                                         *)
(* Numbers: ghi values are integers; an efficiency is kept in hundredths   *)
(* (0.15 is 15); an average and an output are exact rationals <<n, d>> in  *)
(* lowest terms with d > 0, so equal numbers are equal values.             *)
(***************************************************************************)
EXTENDS Integers, Sequences, FiniteSets, Bags

VARIABLES
  api_key,      \* SOLCAST_API_KEY is set in the environment
  table,        \* committed rows of irradiation_data (a bag: no key, no order)
  latest_data,  \* the module-level dict: site id -> [output, plot]
  pc,           \* position of the job thread inside update_data
  idx,          \* index of the current site in the for loop
  data,         \* local of update_data: what fetch_solcast_data returned
  output,       \* local of update_data
  plot,         \* local of update_data
  cycle,        \* number of update_data invocations started
  fetched,      \* history: HTTP GETs issued per site in the current cycle
  status,       \* history: per site, outcome of the current cycle
  cacheAtStart, \* history: latest_data when the current cycle started
  seen,         \* what the last dashboard request rendered
  seenMark      \* history: job progress when that request read the cache

vars == <<api_key, table, latest_data, pc, idx, data, output, plot, cycle,
          fetched, status, cacheAtStart, seen, seenMark>>

---------------------------------------------------------------------------
(* Bounds of the model *)

MaxCycles == 2

MaxForecasts == 2

MaxCopies == 1

---------------------------------------------------------------------------
(* Site configuration *)

sites == << [id |-> "site1", efficiency |-> 15],
            [id |-> "site2", efficiency |-> 18] >>

SiteIds == { sites[i].id : i \in 1..Len(sites) }

---------------------------------------------------------------------------
(* Rationals *)

Abs(x) == IF x < 0 THEN -x ELSE x

RECURSIVE GCD(_, _)
GCD(a, b) == IF b = 0 THEN a ELSE GCD(b, a % b)

Rat(n, d) ==
  LET g == GCD(Abs(n), Abs(d))
      s == IF d < 0 THEN -1 ELSE 1
  IN  << (s * n) \div g, (s * d) \div g >>

Zero == Rat(0, 1)

RatMul(p, q) == Rat(p[1] * q[1], p[2] * q[2])

Eff(e) == Rat(e, 100)

---------------------------------------------------------------------------
(* Values exchanged with the forecast API *)

ForecastKeys == {"period_end", "ghi", "dni", "dhi"}

\* A forecast entry of the JSON body. keys is the set of keys the object
\* has; a field whose key is missing is never read.
Sunny == [keys |-> ForecastKeys, period_end |-> "2024-06-01T00:00:00Z",
          ghi |-> 100, dni |-> 60, dhi |-> 40]

Dark == [keys |-> ForecastKeys, period_end |-> "2024-06-01T00:30:00Z",
         ghi |-> 0, dni |-> 0, dhi |-> 0]

BadStamp == [keys |-> ForecastKeys, period_end |-> "tomorrow",
             ghi |-> 200, dni |-> 120, dhi |-> 80]

NoDhi == [keys |-> {"period_end", "ghi", "dni"},
          period_end |-> "2024-06-01T01:00:00Z",
          ghi |-> 100, dni |-> 60, dhi |-> 0]

Entries == {Sunny, Dark, BadStamp, NoDhi}

SeqsUpTo(S, n) == UNION { [1..k -> S] : k \in 0..n }

\* A JSON body: the set of its top-level keys and, when present, the value
\* of 'forecasts'.
EmptyBody == [keys |-> {}, forecasts |-> <<>>]

ErrorBody == [keys |-> {"message"}, forecasts |-> <<>>]

ForecastBody(fs) == [keys |-> {"forecasts"}, forecasts |-> fs]

\* The 'forecasts' lists the API delivers in the job's cycles: none, one
\* or two entries, dark ones, one that store_data rejects after a good one,
\* and one that plot_forecast rejects after a good one.
ApiForecasts == { <<>>, <<Sunny>>, <<Dark>>, <<Sunny, Dark>>,
                  <<Sunny, NoDhi>>, <<Dark, BadStamp>> }

Bodies == {EmptyBody, ErrorBody} \cup { ForecastBody(fs) : fs \in ApiForecasts }

\* What the HTTP exchange of one GET can do: fail with a RequestException
\* (transport error or non-2xx status), deliver a body that json() rejects
\* with an exception that is not a RequestException, or deliver a JSON body.
HttpOutcomes == { [kind |-> "error", body |-> EmptyBody],
                  [kind |-> "badjson", body |-> EmptyBody] }
                  \cup { [kind |-> "ok", body |-> b] : b \in Bodies }

None == [none |-> TRUE, body |-> EmptyBody]

Some(b) == [none |-> FALSE, body |-> b]

---------------------------------------------------------------------------
(* fetch_solcast_data *)

\* Variant: a failed request is sent a second time.
fetch_solcast_data_retry(resp) ==
  CASE resp.kind = "ok" ->
         [raised |-> FALSE, value |-> Some(resp.body), gets |-> 1]
    [] resp.kind = "error" ->
         [raised |-> FALSE, value |-> None, gets |-> 2]
    [] resp.kind = "badjson" ->
         [raised |-> TRUE, value |-> None, gets |-> 1]

\* gets: the number of GET requests the call issued (line 25).
fetch_solcast_data(resp) ==
  CASE resp.kind = "ok" ->
         [raised |-> FALSE, value |-> Some(resp.body), gets |-> 1]
    [] resp.kind = "error" ->
         [raised |-> FALSE, value |-> None, gets |-> 1]
    [] resp.kind = "badjson" ->
         [raised |-> TRUE, value |-> None, gets |-> 1]

\* update_data line 107: not data or 'forecasts' not in data
NoForecast(d) == d.none \/ d.body.keys = {} \/ "forecasts" \notin d.body.keys

---------------------------------------------------------------------------
(* store_data *)

Row(forecast, site_id) ==
  [timestamp |-> forecast.period_end, ghi |-> forecast.ghi,
   dni |-> forecast.dni, dhi |-> forecast.dhi, site_id |-> site_id]

\* The loop of lines 50-52 from entry k on; pending is the bag of rows
\* inserted so far in the connection's open transaction.
RECURSIVE InsertLoop(_, _, _, _)
InsertLoop(forecasts, site_id, k, pending) ==
  IF k > Len(forecasts)
    THEN [raised |-> FALSE, pending |-> pending]
    ELSE IF ~(ForecastKeys \subseteq forecasts[k].keys)
      THEN [raised |-> TRUE, pending |-> pending]
      ELSE InsertLoop(forecasts, site_id, k + 1,
                      pending (+) SetToBag({Row(forecasts[k], site_id)}))

\* Variant: a connection in autocommit mode, every insert is final.
store_data_autocommit(tbl, d, site_id, dbUp) ==
  IF ~dbUp
    THEN [raised |-> TRUE, table |-> tbl]
    ELSE LET r == InsertLoop(d.body.forecasts, site_id, 1, EmptyBag)
         IN  [raised |-> r.raised, table |-> tbl (+) r.pending]

\* Variant: an insert that skips a row the table already holds.
store_data_dedup(tbl, d, site_id, dbUp) ==
  IF ~dbUp
    THEN [raised |-> TRUE, table |-> tbl]
    ELSE LET r == InsertLoop(d.body.forecasts, site_id, 1, EmptyBag)
             new == BagToSet(r.pending) \ BagToSet(tbl)
         IN  IF r.raised
               THEN [raised |-> TRUE, table |-> tbl]
               ELSE [raised |-> FALSE, table |-> tbl (+) SetToBag(new)]

\* dbUp: get_db_connection succeeds. The rows become part of the table at
\* the commit of line 53; an exception leaves the function with the
\* transaction open, and the connection drops it.
store_data(tbl, d, site_id, dbUp) ==
  IF ~dbUp
    THEN [raised |-> TRUE, table |-> tbl]
    ELSE LET r == InsertLoop(d.body.forecasts, site_id, 1, EmptyBag)
         IN  IF r.raised
               THEN [raised |-> TRUE, table |-> tbl]
               ELSE [raised |-> FALSE, table |-> tbl (+) r.pending]

---------------------------------------------------------------------------
(* calculate_plant_output *)

Null == <<>>

RowsOf(tbl, site_id) == { r \in BagToSet(tbl) : r.site_id = site_id }

RECURSIVE SumGhi(_, _)
SumGhi(tbl, rs) ==
  IF rs = {} THEN 0
  ELSE LET r == CHOOSE x \in rs : TRUE
       IN  r.ghi * CopiesIn(r, tbl) + SumGhi(tbl, rs \ {r})

RECURSIVE Count(_, _)
Count(tbl, rs) ==
  IF rs = {} THEN 0
  ELSE LET r == CHOOSE x \in rs : TRUE
       IN  CopiesIn(r, tbl) + Count(tbl, rs \ {r})

\* SELECT AVG(ghi) FROM irradiation_data WHERE site_id = %s
AvgGhi(tbl, site_id) ==
  LET rs == RowsOf(tbl, site_id)
  IN  IF rs = {} THEN Null ELSE Rat(SumGhi(tbl, rs), Count(tbl, rs))

Truthy(avg) == avg # Null /\ avg[1] # 0

\* Variant: the query without its WHERE clause.
calculate_plant_output_all_sites(tbl, site_id, plant_efficiency) ==
  LET rs == BagToSet(tbl)
      avg_ghi == IF rs = {} THEN Null ELSE Rat(SumGhi(tbl, rs), Count(tbl, rs))
  IN  IF Truthy(avg_ghi) THEN RatMul(avg_ghi, Eff(plant_efficiency)) ELSE Zero

calculate_plant_output(tbl, site_id, plant_efficiency) ==
  LET avg_ghi == AvgGhi(tbl, site_id)
  IN  IF Truthy(avg_ghi) THEN RatMul(avg_ghi, Eff(plant_efficiency)) ELSE Zero

---------------------------------------------------------------------------
(* plot_forecast *)

\* datetime.fromisoformat(period_end.replace('Z', '+00:00')): minutes after
\* 2024-06-01T00:00 UTC, or a ValueError.
FromIso(s) ==
  CASE s = "2024-06-01T00:00:00Z" -> [raised |-> FALSE, value |-> 0]
    [] s = "2024-06-01T00:30:00Z" -> [raised |-> FALSE, value |-> 30]
    [] s = "2024-06-01T01:00:00Z" -> [raised |-> FALSE, value |-> 60]
    [] OTHER                      -> [raised |-> TRUE, value |-> 0]

NoPlot == [title |-> "", points |-> <<>>]

\* The loop of lines 71-73 from entry k on.
RECURSIVE PlotLoop(_, _, _)
PlotLoop(forecasts, k, points) ==
  IF k > Len(forecasts)
    THEN [raised |-> FALSE, points |-> points]
    ELSE IF ~({"period_end", "ghi"} \subseteq forecasts[k].keys)
              \/ FromIso(forecasts[k].period_end).raised
      THEN [raised |-> TRUE, points |-> points]
      ELSE PlotLoop(forecasts, k + 1,
                    Append(points, << FromIso(forecasts[k].period_end).value,
                                      forecasts[k].ghi >>))

\* The returned string encodes the chart: its title and the plotted points.
plot_forecast(d, site_id) ==
  LET r == PlotLoop(d.body.forecasts, 1, <<>>)
  IN  IF r.raised
        THEN [raised |-> TRUE, value |-> NoPlot]
        ELSE [raised |-> FALSE,
              value |-> [title |-> site_id, points |-> r.points]]

---------------------------------------------------------------------------
(* update_data, one action per step of the job thread *)

NoEntry == [output |-> Zero, plot |-> NoPlot]

Site == sites[idx]

AllSites(v) == [s \in SiteIds |-> v]

\* End of one iteration of the for loop of line 104: the next site, or the
\* end of update_data (line 123), where the locals go with the frame.
\* d is the value of data when the iteration ends.
Advance(d) ==
  IF idx < Len(sites)
    THEN /\ pc' = "fetch"
         /\ idx' = idx + 1
         /\ data' = d
         /\ UNCHANGED <<output, plot>>
    ELSE /\ pc' = "idle"
         /\ idx' = 1
         /\ data' = None
         /\ output' = Zero
         /\ plot' = NoPlot

\* The continue of line 109 and the except clause of lines 120-121: the
\* failure is logged and the loop goes on.
\* Variant: one try around the whole loop, a failure ends the cycle.
SiteFailedAborts(d) ==
  /\ status' = [status EXCEPT ![Site.id] = "failed"]
  /\ pc' = "idle"
  /\ idx' = 1
  /\ data' = None
  /\ output' = Zero
  /\ plot' = NoPlot

SiteFailed(d) ==
  /\ status' = [status EXCEPT ![Site.id] = "failed"]
  /\ Advance(d)

EmptyCache == [s \in {} |-> NoEntry]

\* Variant: the cycle starts from an empty dict.
CycleStartCacheEmpty(cache) == EmptyCache

\* The dict the cycle starts from (line 93: the global is used as it is).
CycleStartCache(cache) == cache

\* Lines 94-97: no API key, the job logs an error and returns.
UpdateNoKey ==
  /\ pc = "idle"
  /\ cycle < MaxCycles
  /\ ~api_key
  /\ cycle' = cycle + 1
  /\ UNCHANGED <<api_key, table, latest_data, pc, idx, data, output, plot,
                 fetched, status, cacheAtStart, seen, seenMark>>

\* Lines 92-104: a scheduler tick (or the call at start-up) enters the loop.
UpdateBegin ==
  /\ pc = "idle"
  /\ cycle < MaxCycles
  /\ api_key
  /\ cycle' = cycle + 1
  /\ pc' = "fetch"
  /\ idx' = 1
  /\ fetched' = AllSites(0)
  /\ status' = AllSites("pending")
  /\ cacheAtStart' = latest_data
  /\ latest_data' = CycleStartCache(latest_data)
  /\ UNCHANGED <<api_key, table, data, output, plot, seen, seenMark>>

\* Lines 106-109: one GET for the site, then the check of the result.
Fetch ==
  /\ pc = "fetch"
  /\ \E resp \in HttpOutcomes :
       LET r == fetch_solcast_data(resp)
       IN  /\ fetched' = [fetched EXCEPT ![Site.id] = @ + r.gets]
           /\ IF r.raised
                THEN SiteFailed(data)
                ELSE IF NoForecast(r.value)
                THEN SiteFailed(r.value)
                ELSE /\ data' = r.value
                     /\ pc' = "store"
                     /\ UNCHANGED <<idx, output, plot, status>>
  /\ UNCHANGED <<api_key, table, latest_data, cycle, cacheAtStart, seen,
                 seenMark>>

\* Line 111.
Store ==
  /\ pc = "store"
  /\ \E dbUp \in BOOLEAN :
       LET r == store_data(table, data, Site.id, dbUp)
       IN  /\ table' = r.table
           /\ IF r.raised
                THEN SiteFailed(data)
                ELSE /\ pc' = "calc"
                     /\ UNCHANGED <<idx, data, output, plot, status>>
  /\ UNCHANGED <<api_key, latest_data, cycle, fetched, cacheAtStart, seen,
                 seenMark>>

\* Variant: the mean is taken over the entries of the current response.
RECURSIVE SumOfGhi(_)
SumOfGhi(fs) == IF fs = <<>> THEN 0 ELSE Head(fs).ghi + SumOfGhi(Tail(fs))

CalcWindowed ==
  /\ pc = "calc"
  /\ \E dbUp \in BOOLEAN :
       IF ~dbUp
         THEN SiteFailed(data)
         ELSE /\ output' =
                   IF SumOfGhi(data.body.forecasts) = 0 THEN Zero
                   ELSE RatMul(Rat(SumOfGhi(data.body.forecasts),
                                   Len(data.body.forecasts)),
                               Eff(Site.efficiency))
              /\ pc' = "plot"
              /\ UNCHANGED <<idx, data, plot, status>>
  /\ UNCHANGED <<api_key, table, latest_data, cycle, fetched, cacheAtStart,
                 seen, seenMark>>

\* Line 112; get_db_connection may fail here too.
Calc ==
  /\ pc = "calc"
  /\ \E dbUp \in BOOLEAN :
       IF ~dbUp
         THEN SiteFailed(data)
         ELSE /\ output' = calculate_plant_output(table, Site.id,
                                                  Site.efficiency)
              /\ pc' = "plot"
              /\ UNCHANGED <<idx, data, plot, status>>
  /\ UNCHANGED <<api_key, table, latest_data, cycle, fetched, cacheAtStart,
                 seen, seenMark>>

\* Variant: the dict is replaced by one that holds the new entry only.
CacheWriteReplace(cache, site_id, entry) == [s \in {site_id} |-> entry]

\* Lines 115-118: latest_data[site['id']] = {...}
CacheWrite(cache, site_id, entry) ==
  [s \in DOMAIN cache \cup {site_id} |->
     IF s = site_id THEN entry ELSE cache[s]]

\* Variant: the cache entry is written before the chart is rendered.
PlotAfterWrite ==
  /\ pc = "plot"
  /\ latest_data' = CacheWrite(latest_data, Site.id,
                               [output |-> output, plot |-> NoPlot])
  /\ LET r == plot_forecast(data, Site.id)
     IN  IF r.raised
           THEN SiteFailed(data)
           ELSE /\ plot' = r.value
                /\ pc' = "write"
                /\ UNCHANGED <<idx, data, output, status>>
  /\ UNCHANGED <<api_key, table, cycle, fetched, cacheAtStart, seen, seenMark>>

\* Line 113.
Plot ==
  /\ pc = "plot"
  /\ LET r == plot_forecast(data, Site.id)
     IN  IF r.raised
           THEN SiteFailed(data)
           ELSE /\ plot' = r.value
                /\ pc' = "write"
                /\ UNCHANGED <<idx, data, output, status>>
  /\ UNCHANGED <<api_key, table, latest_data, cycle, fetched, cacheAtStart,
                 seen, seenMark>>

\* Lines 115-119.
Write ==
  /\ pc = "write"
  /\ latest_data' = CacheWrite(latest_data, Site.id,
                               [output |-> output, plot |-> plot])
  /\ status' = [status EXCEPT ![Site.id] = "ok"]
  /\ Advance(data)
  /\ UNCHANGED <<api_key, table, cycle, fetched, cacheAtStart, seen, seenMark>>

---------------------------------------------------------------------------
(* index, the dashboard handler, on a request thread *)

Written == { s \in SiteIds : status[s] = "ok" }

NoMark == [running |-> FALSE, written |-> {}, start |-> EmptyCache]

\* Lines 125-127: the page is rendered from the dict as it is now. The mark
\* records how far a running cycle had come at that moment.
Index ==
  /\ seen' = latest_data
  /\ seenMark' = IF pc = "idle" THEN NoMark
                 ELSE [running |-> TRUE, written |-> Written,
                       start |-> cacheAtStart]
  /\ UNCHANGED <<api_key, table, latest_data, pc, idx, data, output, plot,
                 cycle, fetched, status, cacheAtStart>>

---------------------------------------------------------------------------
(* The process *)

\* Module import: latest_data = {} (line 90), create_database (line 133) on
\* a database that holds no rows yet; the environment is fixed.
Init ==
  /\ api_key \in BOOLEAN
  /\ table = EmptyBag
  /\ latest_data = EmptyCache
  /\ pc = "idle"
  /\ idx = 1
  /\ data = None
  /\ output = Zero
  /\ plot = NoPlot
  /\ cycle = 0
  /\ fetched = AllSites(0)
  /\ status = AllSites("pending")
  /\ cacheAtStart = EmptyCache
  /\ seen = EmptyCache
  /\ seenMark = NoMark

Next ==
  \/ UpdateNoKey
  \/ UpdateBegin
  \/ Fetch
  \/ Store
  \/ Calc
  \/ Plot
  \/ Write
  \/ Index

Spec == Init /\ [][Next]_vars

\* The job thread alone: index changes nothing the job reads.
NextJob ==
  \/ UpdateNoKey
  \/ UpdateBegin
  \/ Fetch
  \/ Store
  \/ Calc
  \/ Plot
  \/ Write

SpecJob == Init /\ [][NextJob]_vars

---------------------------------------------------------------------------
(* store_data and calculate_plant_output on any table *)

StorableEntries == { e \in Entries : ForecastKeys \subseteq e.keys }

RowTypes == { Row(e, s) : e \in StorableEntries, s \in SiteIds }

Tables ==
  { [r \in { x \in RowTypes : f[x] > 0 } |-> f[r]] :
      f \in [RowTypes -> 0..MaxCopies] }

\* A process started on a database that holds the rows of earlier runs
\* (create_database keeps an existing table), in its first cycle, about to
\* persist what it fetched for site idx; the sites before it were skipped.
InitPure ==
  /\ api_key = TRUE
  /\ table \in Tables
  /\ latest_data = EmptyCache
  /\ pc = "store"
  /\ idx \in 1..Len(sites)
  /\ data \in { Some(ForecastBody(fs)) : fs \in SeqsUpTo(Entries, MaxForecasts) }
  /\ output = Zero
  /\ plot = NoPlot
  /\ cycle = 1
  /\ fetched = [s \in SiteIds |->
                  IF \E i \in 1..idx : sites[i].id = s THEN 1 ELSE 0]
  /\ status = [s \in SiteIds |->
                 IF \E i \in 1..(idx - 1) : sites[i].id = s
                   THEN "failed" ELSE "pending"]
  /\ cacheAtStart = EmptyCache
  /\ seen = EmptyCache
  /\ seenMark = NoMark

NextPure ==
  \/ Store
  \/ Calc

SpecPure == InitPure /\ [][NextPure]_vars

---------------------------------------------------------------------------
(* Properties *)

\* The entry of a site as an option: <<entry>>, or <<>> when absent.
Entry(cache, s) == IF s \in DOMAIN cache THEN <<cache[s]>> ELSE <<>>

\* An invocation of update_data with an API key has returned.
CycleDone == api_key /\ cycle > 0 /\ pc = "idle"

\* C1: a failure of one site never stops the cycle. While the job runs some
\* step of it can always be taken; the sites before the current one have
\* each been fetched once and settled (ok or failed), the sites after it
\* have not been touched; and when the invocation has returned every
\* configured site has been fetched exactly once and settled.
C1_EverySiteAttempted ==
  /\ pc # "idle" => ENABLED NextJob
  /\ \A i \in 1..Len(sites) :
       LET s == sites[i].id
       IN  /\ CycleDone => fetched[s] = 1 /\ status[s] \in {"ok", "failed"}
           /\ pc # "idle" /\ i < idx =>
                fetched[s] = 1 /\ status[s] \in {"ok", "failed"}
           /\ pc # "idle" /\ i > idx =>
                fetched[s] = 0 /\ status[s] = "pending"

\* A finished cycle in which the first site failed and the second one was
\* processed to the end.
C1_Witness ==
  /\ CycleDone
  /\ status["site1"] = "failed"
  /\ status["site2"] = "ok"
  /\ "site2" \in DOMAIN latest_data

\* C2: a site that has not completed all its steps in the current cycle
\* (it failed, or its turn has not come) has the cache entry it had when
\* the cycle started, or still none.
C2_FailedSiteNotWritten ==
  \A s \in SiteIds :
    status[s] # "ok" => Entry(latest_data, s) = Entry(cacheAtStart, s)

\* The second cycle has returned, site1 failed in it and the dashboard
\* still has the entry an earlier cycle wrote for site1.
C2_Witness ==
  /\ CycleDone
  /\ cycle = 2
  /\ status["site1"] = "failed"
  /\ status["site2"] = "ok"
  /\ "site1" \in DOMAIN latest_data

\* C3 as stated: after an invocation of update_data every entry of the
\* cache was produced by that invocation.
C3_RebuiltEachCycle ==
  CycleDone => \A s \in DOMAIN latest_data : status[s] = "ok"

\* C3 amended: the cache is updated in place. After an invocation its keys
\* are the keys it had before together with the sites the invocation
\* processed to the end, and every entry of another site is the one that
\* was there before the invocation.
C3_UpdatedInPlace ==
  CycleDone =>
    /\ DOMAIN latest_data =
         DOMAIN cacheAtStart \cup { s \in SiteIds : status[s] = "ok" }
    /\ \A s \in DOMAIN cacheAtStart :
         status[s] # "ok" => latest_data[s] = cacheAtStart[s]

\* A cycle that produced nothing has returned and the whole cache of the
\* earlier cycle is still there.
C3_Witness ==
  /\ CycleDone
  /\ \A s \in SiteIds : status[s] = "failed"
  /\ DOMAIN latest_data = SiteIds
  /\ latest_data = cacheAtStart

\* C4: what a dashboard request that overlaps a running cycle renders is
\* the cache in the middle of its update: for the sites the cycle has
\* already written, the entries of this cycle; for every other site, the
\* entry from before the cycle, or none.
C4_ReaderSeesPartialUpdate ==
  seenMark.running =>
    \A s \in SiteIds :
      /\ s \in seenMark.written =>
           s \in DOMAIN seen /\ seen[s].plot.title = s
      /\ s \notin seenMark.written =>
           Entry(seen, s) = Entry(seenMark.start, s)

\* A request served in the middle of the second cycle: site1 shows the
\* entry the running cycle wrote, which differs from the one before, and
\* site2 still shows the entry of the earlier cycle.
C4_Witness ==
  /\ seenMark.running
  /\ seenMark.written = {"site1"}
  /\ "site1" \in DOMAIN seenMark.start
  /\ seen["site1"] # seenMark.start["site1"]
  /\ "site2" \in DOMAIN seen
  /\ seen["site2"] = seenMark.start["site2"]

\* C5: no step of the process takes an entry out of the cache.
C5_NeverUnpopulated ==
  [][\A s \in DOMAIN latest_data : s \in DOMAIN latest_data']_vars

\* site2 failed in the second cycle, its entry is still in the cache and a
\* dashboard request after that cycle rendered it.
C5_Witness ==
  /\ cycle = 2
  /\ CycleDone
  /\ status["site2"] = "failed"
  /\ "site2" \in DOMAIN latest_data
  /\ ~seenMark.running
  /\ "site2" \in DOMAIN seen

\* The rows of a site, the number of them and the total of their ghi.
SiteBag(tbl, site_id) ==
  [r \in { x \in DOMAIN tbl : x.site_id = site_id } |-> tbl[r]]

RECURSIVE GhiTotal(_)
GhiTotal(bag) ==
  IF DOMAIN bag = {} THEN 0
  ELSE LET r == CHOOSE x \in DOMAIN bag : TRUE
       IN  bag[r] * r.ghi
             + GhiTotal([x \in DOMAIN bag \ {r} |-> bag[x]])

\* eff (in hundredths) times the arithmetic mean, 0 without rows.
ExpectedOutput(tbl, site_id, eff) ==
  LET rows == SiteBag(tbl, site_id)
      n == BagCardinality(rows)
  IN  IF n = 0 THEN <<0, 1>> ELSE Rat(eff * GhiTotal(rows), 100 * n)

TestEfficiencies == {-15, 0, 15, 18, 100}

\* C6: for every table, site and efficiency calculate_plant_output is 0
\* when the site has no rows and otherwise the efficiency times the mean
\* of ghi over the rows of that site only; and this is the value the job
\* holds after its aggregate step.
C6_OutputIsEffTimesMean ==
  /\ \A s \in SiteIds \cup {"site3"} : \A e \in TestEfficiencies :
       calculate_plant_output(table, s, e) = ExpectedOutput(table, s, e)
  /\ pc = "plot" =>
       output = ExpectedOutput(table, Site.id, Site.efficiency)

\* The aggregate step has run for site1 on a table where all rows of site1
\* have ghi = 0 and site2 has rows with ghi > 0.
C6_Witness ==
  /\ pc = "plot"
  /\ idx = 1
  /\ output = <<0, 1>>
  /\ BagCardinality(SiteBag(table, "site1")) >= 2
  /\ \A r \in DOMAIN SiteBag(table, "site1") : r.ghi = 0
  /\ \E r \in DOMAIN SiteBag(table, "site2") : r.ghi > 0

\* C7: a store_data that succeeds on a response with N entries adds exactly
\* N rows, takes no row away, and every row it adds carries the site id.
C7_StoreAddsNRows ==
  [][(pc = "store" /\ pc' = "calc") =>
       /\ BagCardinality(table') =
            BagCardinality(table) + Len(data.body.forecasts)
       /\ \A r \in DOMAIN table : CopiesIn(r, table') >= CopiesIn(r, table)
       /\ \A r \in DOMAIN table' :
            CopiesIn(r, table') > CopiesIn(r, table) => r.site_id = Site.id
       /\ \A k \in 1..Len(data.body.forecasts) :
            CopiesIn(Row(data.body.forecasts[k], Site.id), table') >
              CopiesIn(Row(data.body.forecasts[k], Site.id), table)]_vars

\* Two entries were stored for site1 on a table that already held the same
\* two rows: each of them is there twice now.
C7_Witness ==
  /\ pc = "calc"
  /\ idx = 1
  /\ data.body.forecasts = <<Sunny, Dark>>
  /\ CopiesIn(Row(Sunny, "site1"), table) = 2
  /\ CopiesIn(Row(Dark, "site1"), table) = 2

\* C8: no site is fetched twice in a cycle, whatever the request's outcome.
C8_NoRetry == \A s \in SiteIds : fetched[s] <= 1

\* The fetch of site1 returned nothing, the job is at site2 and site1 was
\* requested once.
C8_Witness ==
  /\ pc = "fetch"
  /\ idx = 2
  /\ data = None
  /\ status["site1"] = "failed"
  /\ fetched["site1"] = 1

\* C9: the output a cycle stores for a site is the site's efficiency times
\* the mean of ghi over all rows the table holds for the site, those of
\* earlier cycles included.
C9_OutputOverAllRows ==
  \A i \in 1..Len(sites) :
    status[sites[i].id] = "ok" =>
      /\ sites[i].id \in DOMAIN latest_data
      /\ latest_data[sites[i].id].output =
           ExpectedOutput(table, sites[i].id, sites[i].efficiency)

\* The second cycle fetched one dark entry for site1 and stored the output
\* 0.15 * 50 = 7.5: the mean includes the row of the first cycle.
C9_Witness ==
  /\ cycle = 2
  /\ status["site1"] = "ok"
  /\ latest_data["site1"].plot.points = << <<30, 0>> >>
  /\ latest_data["site1"].output = <<15, 2>>

\* C10: when an entry of the response cannot be inserted store_data raises
\* and the table is what it was before the call.
C10_StoreAllOrNothing ==
  [][(/\ pc = "store"
      /\ pc' # "store"
      /\ \E k \in 1..Len(data.body.forecasts) :
           ~(ForecastKeys \subseteq data.body.forecasts[k].keys)) =>
       table' = table /\ status'[Site.id] = "failed"]_vars

\* store_data raised for site1 on an entry that follows a good one, and the
\* table still is the non-empty table from before.
C10_Witness ==
  /\ pc = "fetch"
  /\ idx = 2
  /\ status["site1"] = "failed"
  /\ data.body.forecasts = <<Sunny, NoDhi>>
  /\ table # EmptyBag
  /\ SiteBag(table, "site1") = EmptyBag

====
